---- MODULE Spec2Model ----
(***************************************************************************)
(* Natal-chart service (server.py): the POST /chart/natal handler, the     *)
(* civil-time to Julian-Day conversion with timezone rules, and the        *)
(* position mapper (wrap360, sign_of, whole_sign_house).                   *)
(*                                                                         *)
(* Numbers.  Longitudes are Python floats.  They are modelled as a binary  *)
(* floating-point format with Prec mantissa bits whose values are counted  *)
(* in ticks (TicksPerDegree ticks to a degree): every arithmetic result is *)
(* rounded to the nearest representable value, ties to even, as IEEE-754   *)
(* does.  Instants are exact integers of minutes; a Julian Day is kept as  *)
(* (JD - 2400000) * 1440, in minutes: exact for whole-minute instants.     *)
(* Strings are sequences of one-character strings.                         *)
(***************************************************************************)
EXTENDS Integers, Sequences, FiniteSets, TLC

\* ---------------------------------------------------------------- bounds

\* Mantissa bits of the modelled float format (a double has 53).
Prec == 9
\* Resolution of the modelled float format near zero: ticks per degree.
TicksPerDegree == 4
\* Raw longitudes of the mapper specification range over RawTurns full
\* turns below 0 and RawTurns + 1 above.
RawTurns == 1

\* ---------------------------------------------------------------- floats

Abs(n) == IF n < 0 THEN -n ELSE n

RECURSIVE Pow2(_)
Pow2(k) == IF k = 0 THEN 1 ELSE 2 * Pow2(k - 1)

\* The exponent of the float holding magnitude a: the least k with
\* a < 2^Prec * 2^k.
RECURSIVE ExpOf(_, _)
ExpOf(a, k) == IF a < Pow2(Prec) * Pow2(k) THEN k ELSE ExpOf(a, k + 1)

\* Round-to-nearest, ties-to-even, of the exact value n (in ticks).
RoundMag(a) ==
    LET k == ExpOf(a, 0)
        u == Pow2(k)
        q == a \div u
        r == a % u
    IN  IF 2 * r < u THEN q * u
        ELSE IF 2 * r > u THEN (q + 1) * u
        ELSE IF q % 2 = 0 THEN q * u ELSE (q + 1) * u

RoundF(n) == IF n < 0 THEN -RoundMag(-n) ELSE RoundMag(n)

Representable(n) == RoundF(n) = n

\* A float literal of the source, in ticks.
Deg(d) == d * TicksPerDegree

\* C fmod(x, y) for y > 0: exact, with the sign of x.
fmod(x, y) == IF x < 0 THEN -((-x) % y) ELSE x % y

\* Python float x % y (floatobject.c float_rem) for y > 0: fmod, then a
\* rounded addition of y when the remainder is negative.
PyMod(x, y) ==
    LET m == fmod(x, y)
    IN  IF m # 0 /\ m < 0 THEN RoundF(m + y) ELSE m

\* Python float x // y (floatobject.c float_floor_div) for y > 0, as an
\* integer: div = (x - mod) / y, less one when the remainder is negative.
PyFloorDiv(x, y) ==
    LET m   == fmod(x, y)
        div == RoundF(x - m) \div y
    IN  IF m # 0 /\ m < 0 THEN div - 1 ELSE div

\* ---------------------------------------------------------------- mapper

SIGN_NAMES ==
    << "Aries", "Taurus", "Gemini", "Cancer", "Leo", "Virgo",
       "Libra", "Scorpio", "Sagittarius", "Capricorn", "Aquarius", "Pisces" >>

wrap360(x) == PyMod(x, Deg(360))

\* int(lon // 30): the index into SIGN_NAMES (0-based).
sign_index(lon) == PyFloorDiv(lon, Deg(30))

\* SIGN_NAMES[i] raises IndexError outside the table (lon is never negative
\* here, so Python's negative indexing does not come into play).
sign_in_table(lon) == sign_index(lon) \in 0 .. (Len(SIGN_NAMES) - 1)

sign_of(lon) == SIGN_NAMES[sign_index(lon) + 1]

whole_sign_house_Swapped(lon, asc) ==
    ((sign_index(asc) - sign_index(lon) + 12) % 12) + 1

whole_sign_house(lon, asc) ==
    LET asc_sign  == sign_index(asc)
        body_sign == sign_index(lon)
    IN  ((body_sign - asc_sign + 12) % 12) + 1

degree_in_sign_Whole(lon) == PyMod(lon, Deg(360))

degree_in_sign(lon) == PyMod(lon, Deg(30))

\* --------------------------------------------------------------- strings

DIGITS == << "0", "1", "2", "3", "4", "5", "6", "7", "8", "9" >>

IsDigit(c) == \E i \in 1 .. 10 : DIGITS[i] = c

DigitVal(c) == (CHOOSE i \in 1 .. 10 : DIGITS[i] = c) - 1

\* str.split(sep): the pieces between the separators, empty pieces kept.
RECURSIVE SplitAcc(_, _, _, _)
SplitAcc(s, sep, i, cur) ==
    IF i > Len(s) THEN << cur >>
    ELSE IF s[i] = sep THEN << cur >> \o SplitAcc(s, sep, i + 1, << >>)
    ELSE SplitAcc(s, sep, i + 1, Append(cur, s[i]))

Split(s, sep) == SplitAcc(s, sep, 1, << >>)

RECURSIVE DigitsVal(_, _)
DigitsVal(s, acc) ==
    IF s = << >> THEN acc ELSE DigitsVal(Tail(s), 10 * acc + DigitVal(Head(s)))

\* int(s) succeeds on an optional sign followed by one or more digits (the
\* strings of the model hold no blanks and no underscores) and raises
\* ValueError on anything else.
Unsigned(s) == IF s # << >> /\ Head(s) \in {"+", "-"} THEN Tail(s) ELSE s

IntOk(s) == Unsigned(s) # << >> /\ \A i \in 1 .. Len(Unsigned(s)) : IsDigit(Unsigned(s)[i])

IntVal(s) ==
    IF s # << >> /\ Head(s) = "-" THEN -DigitsVal(Unsigned(s), 0)
    ELSE DigitsVal(Unsigned(s), 0)

\* a, b, ... = map(int, s.split(sep)) with n targets: ValueError unless there
\* are exactly n pieces and int() takes each.
UnpackOk(s, sep, n) ==
    LET parts == Split(s, sep)
    IN  Len(parts) = n /\ \A i \in 1 .. n : IntOk(parts[i])

UnpackVal(s, sep, i) == IntVal(Split(s, sep)[i])

\* -------------------------------------------------------------- calendar

IsLeap(y) == (y % 4 = 0 /\ y % 100 # 0) \/ y % 400 = 0

DaysInMonth(y, m) ==
    IF m = 2 THEN (IF IsLeap(y) THEN 29 ELSE 28)
    ELSE IF m \in {4, 6, 9, 11} THEN 30 ELSE 31

\* datetime(year, month, day, hour, minute) raises ValueError unless every
\* field is in range.
DatetimeOk(y, m, d, h, mi) ==
    /\ y \in 1 .. 9999
    /\ m \in 1 .. 12
    /\ d \in 1 .. DaysInMonth(y, m)
    /\ h \in 0 .. 23
    /\ mi \in 0 .. 59

\* Days since 1970-01-01 of a proleptic Gregorian date, and back: the
\* arithmetic behind datetime + timedelta and astimezone.
DaysFromCivil(y, m, d) ==
    LET yy  == IF m <= 2 THEN y - 1 ELSE y
        era == yy \div 400
        yoe == yy - era * 400
        mp  == IF m > 2 THEN m - 3 ELSE m + 9
        doy == (153 * mp + 2) \div 5 + d - 1
        doe == yoe * 365 + yoe \div 4 - yoe \div 100 + doy
    IN  era * 146097 + doe - 719468

CivilFromDays(z) ==
    LET zz  == z + 719468
        era == zz \div 146097
        doe == zz - era * 146097
        yoe == (doe - doe \div 1460 + doe \div 36524 - doe \div 146096) \div 365
        doy == doe - (365 * yoe + yoe \div 4 - yoe \div 100)
        mp  == (5 * doy + 2) \div 153
        d   == doy - (153 * mp + 2) \div 5 + 1
        m   == IF mp < 10 THEN mp + 3 ELSE mp - 9
        y   == yoe + era * 400 + (IF m <= 2 THEN 1 ELSE 0)
    IN  [year |-> y, month |-> m, day |-> d]

\* A naive datetime as minutes since 1970-01-01T00:00.
NaiveMinutes(y, m, d, h, mi) == DaysFromCivil(y, m, d) * 1440 + h * 60 + mi

\* The calendar fields of an instant given in minutes.
FieldsFrom(c, t) ==
    [year |-> c.year, month |-> c.month, day |-> c.day,
     hour |-> (t % 1440) \div 60, minute |-> t % 60]

FieldsOf(t) == FieldsFrom(CivilFromDays(t \div 1440), t)

\* swe.julday(year, month, day, hour) with the Gregorian flag.  The hour is
\* given in minutes (hourMin = hour * 60) and the result is the Julian Day
\* less 2400000 days, in minutes (32-bit integers cannot hold JD * 1440).
\* No field is range checked.
julday(year, month, day, hourMin) ==
    LET u  == IF month < 3 THEN year - 1 ELSE year
        u0 == u + 4712
        u1 == IF month + 1 < 4 THEN month + 13 ELSE month + 1
        u2 == Abs(u) \div 100 - Abs(u) \div 400
        jd0 == (u0 * 1461) \div 4 + (306 * u1) \div 10 + day
               - (IF u < 0 THEN -u2 ELSE u2) + 2
    IN  (jd0 - 2400000) * 1440 + hourMin - 91440

\* ----------------------------------------------------------------- zones

\* tf.timezone_at(lat, lng) on the coordinates of the model's places: the
\* zone name, or NoZone for None.
NoZone == "None"

timezone_at(loc) ==
    CASE loc = "NewYork" -> "America/New_York"
      [] loc = "London"  -> "Europe/London"
      [] OTHER           -> NoZone

\* pytz.timezone(name): the zone's UTC transition times and the offset that
\* holds from each on (the 2023 rules; before the first transition the zone
\* is on its standard offset, which covers the model's dates of 2000).
ZoneTable(name) ==
    IF name = "America/New_York"
    THEN << [utc |-> NaiveMinutes(1970, 1, 1, 0, 0),  off |-> -300, dst |-> FALSE],
            [utc |-> NaiveMinutes(2023, 3, 12, 7, 0), off |-> -240, dst |-> TRUE],
            [utc |-> NaiveMinutes(2023, 11, 5, 6, 0), off |-> -300, dst |-> FALSE] >>
    ELSE << [utc |-> NaiveMinutes(1970, 1, 1, 0, 0),   off |-> 0,  dst |-> FALSE],
            [utc |-> NaiveMinutes(2023, 3, 26, 1, 0),  off |-> 60, dst |-> TRUE],
            [utc |-> NaiveMinutes(2023, 10, 29, 1, 0), off |-> 0,  dst |-> FALSE] >>

\* The transition info in force at t: max(0, bisect_right(times, t) - 1).
InfoIn(tab, t) ==
    LET le == {i \in 1 .. Len(tab) : tab[i].utc <= t}
    IN  IF le = {} THEN tab[1] ELSE tab[CHOOSE i \in le : \A j \in le : j <= i]

InfoAt(zone, t) == InfoIn(ZoneTable(zone), t)

\* DstTzInfo.localize: the candidate readings of the wall time, taken from
\* the infos in force a day before and a day after it; a reading stands
\* when converting it to UTC and back gives the same wall time.
ReadingOf(naive, u, act) ==
    IF u + act.off = naive
    THEN {[utc |-> u, off |-> act.off, dst |-> act.dst]}
    ELSE {}

Candidate(zone, naive, inf) ==
    ReadingOf(naive, naive - inf.off, InfoAt(zone, naive - inf.off))

Readings(zone, naive) ==
    Candidate(zone, naive, InfoAt(zone, naive - 1440))
    \cup Candidate(zone, naive, InfoAt(zone, naive + 1440))

\* tz.localize(naive, is_dst) with is_dst one of "None", "True", "False":
\* [exc |-> the exception raised or "none", utc, off, dst].
LocalizeErr(e) == [exc |-> e, utc |-> 0, off |-> 0, dst |-> FALSE]

LocalizeOk(r) == [exc |-> "none", utc |-> r.utc, off |-> r.off, dst |-> r.dst]

\* The wall time moved back after localizing it six hours away.
Unshift(l, naive) == [l EXCEPT !.utc = naive - l.off]

\* Several readings: those of the wanted is_dst (all, if none is), and of
\* them the earliest in UTC for is_dst=True, the latest for is_dst=False.
PickAmong(filt, is_dst) ==
    LocalizeOk(CHOOSE r \in filt :
                 \A o \in filt : IF is_dst = "True" THEN r.utc <= o.utc
                                 ELSE o.utc <= r.utc)

PickReading(poss, want, is_dst) ==
    PickAmong(IF want = {} THEN poss ELSE want, is_dst)

RECURSIVE localize(_, _, _)
localize_from(poss, zone, naive, is_dst) ==
    IF Cardinality(poss) = 1 THEN LocalizeOk(CHOOSE r \in poss : TRUE)
    ELSE IF poss = {}
    THEN IF is_dst = "None" THEN LocalizeErr("NonExistentTimeError")
         ELSE Unshift(localize(zone, naive + (IF is_dst = "True" THEN 360 ELSE -360),
                               is_dst), naive)
    ELSE IF is_dst = "None" THEN LocalizeErr("AmbiguousTimeError")
    ELSE PickReading(poss, {r \in poss : r.dst = (is_dst = "True")}, is_dst)

localize(zone, naive, is_dst) ==
    localize_from(Readings(zone, naive), zone, naive, is_dst)

\* --------------------------------------------------------------- imports

\* The names the module binds at import time (lines 2-10).
ImportedNames ==
    { "Flask", "request", "jsonify", "CORS", "swe", "math", "os",
      "datetime", "TimezoneFinder", "pytz" }

\* -------------------------------------------------------------- requests

Str_2023_03_12 == << "2", "0", "2", "3", "-", "0", "3", "-", "1", "2" >>
Str_2023_11_05 == << "2", "0", "2", "3", "-", "1", "1", "-", "0", "5" >>
Str_2023_06_21 == << "2", "0", "2", "3", "-", "0", "6", "-", "2", "1" >>
Str_2000_01_01 == << "2", "0", "0", "0", "-", "0", "1", "-", "0", "1" >>
Str_2023_13_01 == << "2", "0", "2", "3", "-", "1", "3", "-", "0", "1" >>
Str_2023_06    == << "2", "0", "2", "3", "-", "0", "6" >>
Str_2023_03_26 == << "2", "0", "2", "3", "-", "0", "3", "-", "2", "6" >>
Str_2023_10_29 == << "2", "0", "2", "3", "-", "1", "0", "-", "2", "9" >>

DateStrs ==
    { Str_2023_03_12, Str_2023_11_05, Str_2023_06_21, Str_2000_01_01,
      Str_2023_13_01, Str_2023_06, Str_2023_03_26, Str_2023_10_29 }

Str_12c30    == << "1", "2", ":", "3", "0" >>
Str_12c00    == << "1", "2", ":", "0", "0" >>
Str_01c30    == << "0", "1", ":", "3", "0" >>
Str_02c30    == << "0", "2", ":", "3", "0" >>
Str_99c99    == << "9", "9", ":", "9", "9" >>
Str_12d30    == << "1", "2", ".", "3", "0" >>
Str_12c30c45 == << "1", "2", ":", "3", "0", ":", "4", "5" >>
Str_12d30d45 == << "1", "2", ".", "3", "0", ".", "4", "5" >>
Str_12       == << "1", "2" >>
Str_1xc30    == << "1", "x", ":", "3", "0" >>

TimeStrs ==
    { Str_12c30, Str_12c00, Str_01c30, Str_02c30, Str_99c99, Str_12d30,
      Str_12c30c45, Str_12d30d45, Str_12, Str_1xc30 }

\* Places: two with a zone, one where timezone_at finds none, and a "lat"
\* that float() does not take.
Locs == { "NewYork", "London", "Ocean", "BadLat" }

\* timezoneOffsetMinutes: absent, a JSON number, or a JSON string.
TzOffs ==
    { [kind |-> "absent", val |-> 0],
      [kind |-> "number", val |-> 330],
      [kind |-> "number", val |-> -300],
      [kind |-> "string", val |-> 330] }

\* The JSON bodies posted: every combination with all four fields present,
\* and one body for each missing field.
Requests ==
    [date : DateStrs, time : TimeStrs, loc : Locs, tzoff : TzOffs, missing : {"none"}]
    \cup
    { [date |-> Str_2023_06_21, time |-> Str_12c30, loc |-> "London",
       tzoff |-> [kind |-> "absent", val |-> 0], missing |-> f]
      : f \in {"date", "time", "lat", "lon"} }

NoRequest ==
    [date |-> << >>, time |-> << >>, loc |-> "", missing |-> "none",
     tzoff |-> [kind |-> "absent", val |-> 0]]

\* ------------------------------------------------------------ conversion

FallbackName == "Etc/UTC (fallback)"

NoCivil == [year |-> 0, month |-> 0, day |-> 0, hour |-> 0, minute |-> 0]

\* What compute_jd_ut_with_timezone leaves behind: the exception that left
\* it (with the statement that raised) or its three results, and the parsed
\* fields.
JdRaise(type, at, civ) ==
    [exc |-> type, at |-> at, jd_ut |-> 0, tz_minutes |-> 0, tz_name |-> "",
     civil |-> civ]

JdReturn(jd, mins, name, civ) ==
    [exc |-> "none", at |-> "", jd_ut |-> jd, tz_minutes |-> mins,
     tz_name |-> name, civil |-> civ]

TimeSeparator_Dot == "."

\* The separator the time string is split on (line 95).
TimeSeparator == ":"

AmbiguousIsDst_Daylight == "True"

\* The is_dst handed to localize when the first attempt was ambiguous.
AmbiguousIsDst == "False"

fallback_branch_IgnoresOffset(civ, fallback) ==
    JdReturn(julday(civ.year, civ.month, civ.day, civ.hour * 60), 0, FallbackName, civ)

\* Lines 101-108: no zone found.  The minute is not used.
fallback_branch(civ, fallback) ==
    LET fallback_tz_minutes == IF fallback.given THEN fallback.val ELSE 0
        hour_ut == civ.hour * 60 - fallback_tz_minutes
    IN  JdReturn(julday(civ.year, civ.month, civ.day, hour_ut),
                 fallback_tz_minutes, FallbackName, civ)

\* Lines 126-140: the localized instant to UTC, its offset, the Julian Day.
jd_of_utc(utc_dt, off, zone, civ) ==
    JdReturn(julday(utc_dt.year, utc_dt.month, utc_dt.day,
                    utc_dt.hour * 60 + utc_dt.minute),
             off, zone, civ)

finish_named(l, zone, civ) == jd_of_utc(FieldsOf(l.utc), l.off, zone, civ)

\* Lines 110-140: the named zone.
\* Lines 116-124: the try around the first localize and its two handlers.
localize_with_rules(first, naive_local, zone, civ) ==
    CASE first.exc = "AmbiguousTimeError" ->
           finish_named(localize(zone, naive_local, AmbiguousIsDst), zone, civ)
      [] first.exc = "NonExistentTimeError" ->
           IF "timedelta" \in ImportedNames
           THEN finish_named(localize(zone, naive_local + 60, "True"), zone, civ)
           ELSE JdRaise("NameError", "timedelta", civ)
      [] OTHER -> finish_named(first, zone, civ)

localize_naive(naive_local, zone, civ) ==
    localize_with_rules(localize(zone, naive_local, "None"), naive_local, zone, civ)

named_branch(civ, zone) ==
    IF ~DatetimeOk(civ.year, civ.month, civ.day, civ.hour, civ.minute)
    THEN JdRaise("ValueError", "datetime", civ)
    ELSE localize_naive(
             NaiveMinutes(civ.year, civ.month, civ.day, civ.hour, civ.minute),
             zone, civ)

\* Lines 97-110: the zone of the place decides the branch.
convert_parsed(civ, tz_name_found, fallback) ==
    IF tz_name_found = NoZone
    THEN fallback_branch(civ, fallback)
    ELSE named_branch(civ, tz_name_found)

\* Lines 94-95 parse; the rest converts.
compute_jd_ut_with_timezone(date_str, time_str, loc, fallback) ==
    IF ~UnpackOk(date_str, "-", 3)
    THEN JdRaise("ValueError", "parse_date", NoCivil)
    ELSE IF ~UnpackOk(time_str, TimeSeparator, 2)
    THEN JdRaise("ValueError", "parse_time", NoCivil)
    ELSE convert_parsed([year   |-> UnpackVal(date_str, "-", 1),
                         month  |-> UnpackVal(date_str, "-", 2),
                         day    |-> UnpackVal(date_str, "-", 3),
                         hour   |-> UnpackVal(time_str, TimeSeparator, 1),
                         minute |-> UnpackVal(time_str, TimeSeparator, 2)],
                        timezone_at(loc), fallback)

\* ------------------------------------------------------------- ephemeris

PLANETS == << "sun", "moon", "mercury", "venus", "mars", "jupiter", "saturn" >>

\* What swe.calc_ut may hand back for the i-th body: a raw longitude that
\* differs from body to body (below 0 for the first two, above 360 for the
\* last two), the largest float below 0, or an exception.
TinyNegative == -1

EphemerisRaw(i) == RoundF(Deg(130 * i - 300))

CalcOutcomes(i) ==
    { [raise |-> FALSE, raw |-> x] : x \in { EphemerisRaw(i), TinyNegative } }
    \cup { [raise |-> TRUE, raw |-> 0] }

\* swe.houses: the ascendant and the first cusp; the twelve cusps follow
\* each other 30 degrees apart and are not reduced below 360.
HouseOutcomes ==
    { [raise |-> FALSE, asc |-> a, cusp1 |-> c]
        : a \in { RoundF(Deg(15)), TinyNegative },
          c \in { RoundF(Deg(345)), TinyNegative } }
    \cup { [raise |-> TRUE, asc |-> 0, cusp1 |-> 0] }

RawCusps(c) == [h \in 1 .. 12 |-> RoundF(c + Deg(30) * (h - 1))]

\* The body of the loop of compute_planet_longitudes (lines 53-59).
planet_entry(name, raw) ==
    LET lon == wrap360(raw)
    IN  [name |-> name, longitude |-> lon, sign |-> sign_of(lon),
         degreeInSign |-> degree_in_sign(lon), house |-> 0]

\* The body of the loop of compute_ascendant_and_houses (lines 72-77).
house_entry(h, raw) ==
    LET cusp_value == wrap360(raw)
    IN  [house |-> h, cuspLongitude |-> cusp_value, sign |-> sign_of(cusp_value)]

\* ----------------------------------------------------------------- state

VARIABLES
    pc,                    \* where the handler stands
    request,               \* request.json
    client_tz_offset,      \* [given, val]: a float, or None
    civil,                 \* year, month, day, hour, minute as parsed
    jd_ut,
    effective_tz_minutes,
    tz_name,
    planets,               \* the dict under construction, in insertion order
    asc_lon,
    houses,
    calls,                 \* the calls made to the ephemeris, in order
    jd_computed,           \* how often the Julian Day was computed
    exc,                   \* the exception raised, and the statement raising
    response,              \* [status, chart]: chart is << >> or << the chart >>
    mp                     \* the position mapper on its own (SpecMapper)

vars ==
    << pc, request, client_tz_offset, civil, jd_ut, effective_tz_minutes,
       tz_name, planets, asc_lon, houses, calls, jd_computed, exc, response, mp >>

NoExc == [type |-> "none", at |-> ""]

NoResponse == [status |-> 0, chart |-> << >>]

NoMapper ==
    [stage |-> "off", rawA |-> 0, rawB |-> 0, rawAsc |-> 0,
     lonA |-> 0, lonB |-> 0, asc |-> 0,
     signA |-> "", signB |-> "", signAsc |-> "",
     degA |-> 0, degB |-> 0, degAsc |-> 0,
     houseA |-> 0, houseB |-> 0]

HandlerInit ==
    /\ request = NoRequest
    /\ client_tz_offset = [given |-> FALSE, val |-> 0]
    /\ civil = NoCivil
    /\ jd_ut = 0
    /\ effective_tz_minutes = 0
    /\ tz_name = ""
    /\ planets = << >>
    /\ asc_lon = 0
    /\ houses = << >>
    /\ calls = << >>
    /\ jd_computed = 0
    /\ exc = NoExc
    /\ response = NoResponse

Init ==
    /\ pc = "idle"
    /\ HandlerInit
    /\ mp = NoMapper

\* An exception nobody catches: Flask answers 500 and no chart.
Unhandled(type, at) ==
    /\ exc' = [type |-> type, at |-> at]
    /\ response' = [status |-> 500, chart |-> << >>]
    /\ pc' = "done"

\* Lines 162-177: the fields of the body.  A missing field (KeyError) or a
\* lat/lon that float() refuses is answered 400.
ReceiveRequest(r) ==
    /\ pc = "idle"
    /\ request' = r
    /\ IF r.missing # "none" \/ r.loc = "BadLat"
       THEN /\ exc' = [type |-> IF r.missing # "none" THEN "KeyError" ELSE "ValueError",
                       at |-> "fields"]
            /\ response' = [status |-> 400, chart |-> << >>]
            /\ pc' = "done"
            /\ UNCHANGED client_tz_offset
       ELSE /\ client_tz_offset' =
                 IF r.tzoff.kind = "number"
                 THEN [given |-> TRUE, val |-> r.tzoff.val]
                 ELSE [given |-> FALSE, val |-> 0]
            /\ pc' = "convert"
            /\ UNCHANGED << exc, response >>
    /\ UNCHANGED << civil, jd_ut, effective_tz_minutes, tz_name, planets,
                    asc_lon, houses, calls, jd_computed, mp >>

\* Lines 180-182: the call of compute_jd_ut_with_timezone.
TakeJD(res) ==
    /\ civil' = res.civil
    /\ IF res.exc # "none"
       THEN /\ Unhandled(res.exc, res.at)
            /\ UNCHANGED << jd_ut, effective_tz_minutes, tz_name, jd_computed >>
       ELSE /\ jd_ut' = res.jd_ut
            /\ effective_tz_minutes' = res.tz_minutes
            /\ tz_name' = res.tz_name
            /\ jd_computed' = jd_computed + 1
            /\ pc' = "planets"
            /\ UNCHANGED << exc, response >>

ComputeJD ==
    /\ pc = "convert"
    /\ TakeJD(compute_jd_ut_with_timezone(request.date, request.time,
                                          request.loc, client_tz_offset))
    /\ UNCHANGED << request, client_tz_offset, planets, asc_lon, houses, calls, mp >>

\* The arguments of swe.calc_ut(jd_ut, p_id) and swe.houses(jd_ut, lat, lon, b'W').
calc_ut_call(name) == [fn |-> "calc_ut", body |-> name, jd |-> jd_ut]

houses_call_LocalTime ==
    [fn |-> "houses", body |-> "", jd |-> jd_ut + effective_tz_minutes]

houses_call == [fn |-> "houses", body |-> "", jd |-> jd_ut]

\* Lines 52-59: one turn of the loop over PLANETS.
CalcPlanet(out) ==
    /\ pc = "planets"
    /\ LET i    == Len(planets) + 1
           name == PLANETS[i]
           lon  == wrap360(out.raw)
       IN  /\ calls' = Append(calls, calc_ut_call(name))
           /\ IF out.raise
              THEN Unhandled("swe.Error", "calc_ut") /\ UNCHANGED planets
              ELSE IF ~sign_in_table(lon)
              THEN Unhandled("IndexError", "sign_of") /\ UNCHANGED planets
              ELSE /\ planets' = Append(planets, planet_entry(name, out.raw))
                   /\ pc' = IF i = Len(PLANETS) THEN "houses" ELSE "planets"
                   /\ UNCHANGED << exc, response >>
    /\ UNCHANGED << request, client_tz_offset, civil, jd_ut, effective_tz_minutes,
                    tz_name, asc_lon, houses, jd_computed, mp >>

\* Lines 64-79: compute_ascendant_and_houses.
ComputeHouses(out) ==
    /\ pc = "houses"
    /\ calls' = Append(calls, houses_call)
    /\ LET cusps == RawCusps(out.cusp1)
       IN  IF out.raise
           THEN Unhandled("swe.Error", "houses") /\ UNCHANGED << asc_lon, houses >>
           ELSE IF \E h \in 1 .. 12 : ~sign_in_table(wrap360(cusps[h]))
           THEN Unhandled("IndexError", "sign_of") /\ UNCHANGED << asc_lon, houses >>
           ELSE /\ asc_lon' = wrap360(out.asc)
                /\ houses' = [h \in 1 .. 12 |-> house_entry(h, cusps[h])]
                /\ pc' = "assemble"
                /\ UNCHANGED << exc, response >>
    /\ UNCHANGED << request, client_tz_offset, civil, jd_ut, effective_tz_minutes,
                    tz_name, planets, jd_computed, mp >>

\* Lines 187-205: the ascendant, the house of each planet, the answer.
Assemble ==
    /\ pc = "assemble"
    /\ IF ~sign_in_table(asc_lon)
       THEN Unhandled("IndexError", "sign_of") /\ UNCHANGED planets
       ELSE LET ascendant == [longitude |-> asc_lon, sign |-> sign_of(asc_lon),
                              degreeInSign |-> degree_in_sign(asc_lon)]
                housed == [i \in 1 .. Len(planets) |->
                             [planets[i] EXCEPT
                                !.house = whole_sign_house(planets[i].longitude, asc_lon)]]
            IN  /\ planets' = housed
                /\ response' =
                     [status |-> 200,
                      chart |-> << [ascendant |-> ascendant,
                                    houses |-> houses,
                                    planets |-> housed,
                                    timezone |-> [name |-> tz_name,
                                                  offsetMinutes |-> effective_tz_minutes]] >>]
                /\ pc' = "done"
                /\ UNCHANGED exc
    /\ UNCHANGED << request, client_tz_offset, civil, jd_ut, effective_tz_minutes,
                    tz_name, asc_lon, houses, calls, jd_computed, mp >>

Next ==
    \/ \E r \in Requests : ReceiveRequest(r)
    \/ ComputeJD
    \/ \E out \in CalcOutcomes(Len(planets) + 1) : CalcPlanet(out)
    \/ \E out \in HouseOutcomes : ComputeHouses(out)
    \/ Assemble

Spec == Init /\ [][Next]_vars

\* ------------------------------------------------- the mapper on its own

\* Raw longitudes for the first body: every multiple of 30 degrees over the
\* turns of RawTurns, and the floats one tick and one degree to either side.
RawLons ==
    { x \in { Deg(30 * k) + e : k \in (-12 * RawTurns) .. (12 * (RawTurns + 1)),
                               e \in { -Deg(1), -1, 0, 1, Deg(1) } }
        : Representable(x) }

\* Raw longitudes for the second body (one in each sign) and for the
\* ascendant (the first and the last degree of each sign).
RawLonsB == { RoundF(Deg(30 * k + 10)) : k \in 0 .. 11 }

RawAscs == { RoundF(Deg(30 * k + e)) : k \in 0 .. 11, e \in {0, 29} }

MapperInit ==
    /\ pc = "mapper"
    /\ HandlerInit
    /\ mp \in { [NoMapper EXCEPT !.stage = "raw", !.rawA = a, !.rawB = b, !.rawAsc = c]
                  : a \in RawLons, b \in RawLonsB, c \in RawAscs }

\* Lines 54-59 for two bodies and lines 68, 187-191 for the ascendant.
MapEntries(a, b, asc) ==
    [mp EXCEPT !.stage = "mapped",
               !.signA = a.sign, !.signB = b.sign, !.signAsc = sign_of(asc),
               !.degA = a.degreeInSign, !.degB = b.degreeInSign,
               !.degAsc = degree_in_sign(asc)]

MapBodies ==
    /\ pc = "mapper"
    /\ mp.stage = "raw"
    /\ mp' = [mp EXCEPT !.stage = "wrapped",
                        !.lonA = wrap360(mp.rawA),
                        !.lonB = wrap360(mp.rawB),
                        !.asc  = wrap360(mp.rawAsc)]
    /\ UNCHANGED << pc, request, client_tz_offset, civil, jd_ut, effective_tz_minutes,
                    tz_name, planets, asc_lon, houses, calls, jd_computed, exc,
                    response >>

MapSigns ==
    /\ pc = "mapper"
    /\ mp.stage = "wrapped"
    /\ IF \E l \in { mp.lonA, mp.lonB, mp.asc } : ~sign_in_table(l)
       THEN mp' = [mp EXCEPT !.stage = "IndexError"]
       ELSE mp' = MapEntries(planet_entry("a", mp.rawA), planet_entry("b", mp.rawB),
                             mp.asc)
    /\ UNCHANGED << pc, request, client_tz_offset, civil, jd_ut, effective_tz_minutes,
                    tz_name, planets, asc_lon, houses, calls, jd_computed, exc,
                    response >>

\* Lines 194-195.
MapHouses ==
    /\ pc = "mapper"
    /\ mp.stage = "mapped"
    /\ mp' = [mp EXCEPT !.stage = "housed",
                        !.houseA = whole_sign_house(mp.lonA, mp.asc),
                        !.houseB = whole_sign_house(mp.lonB, mp.asc)]
    /\ UNCHANGED << pc, request, client_tz_offset, civil, jd_ut, effective_tz_minutes,
                    tz_name, planets, asc_lon, houses, calls, jd_computed, exc,
                    response >>

MapperNext ==
    \/ MapBodies
    \/ MapSigns
    \/ MapHouses

SpecMapper == MapperInit /\ [][MapperNext]_vars

\* ---------------------------------------------------------------- claims

\* The request carried its four fields and coordinates float() takes, so
\* the handler went on to the conversion.
FieldsTaken == request.missing = "none" /\ request.loc # "BadLat"

\* The conversion has been attempted.
Converted == pc \in {"planets", "houses", "assemble", "done"} /\ FieldsTaken

ConversionStages == {"parse_date", "parse_time", "datetime", "timedelta"}

\* The conversion raised.
ConversionRaised == exc.at \in ConversionStages

\* The time string as the specification reads it: '.' taken for ':', two or
\* three integer components, each in range.
NormSep(t) == [i \in 1 .. Len(t) |-> IF t[i] = "." THEN ":" ELSE t[i]]

SpecTimeParts(t) == Split(NormSep(t), ":")

SpecTimeOk(t) ==
    /\ Len(SpecTimeParts(t)) \in {2, 3}
    /\ \A i \in 1 .. Len(SpecTimeParts(t)) : IntOk(SpecTimeParts(t)[i])
    /\ IntVal(SpecTimeParts(t)[1]) \in 0 .. 23
    /\ \A i \in 2 .. Len(SpecTimeParts(t)) : IntVal(SpecTimeParts(t)[i]) \in 0 .. 59

SpecDateOk(d) ==
    /\ UnpackOk(d, "-", 3)
    /\ UnpackVal(d, "-", 2) \in 1 .. 12
    /\ UnpackVal(d, "-", 3) \in 1 .. DaysInMonth(UnpackVal(d, "-", 1), UnpackVal(d, "-", 2))

\* The civil moment of the request falls in an hour the zone's clocks skip
\* (or repeat): a transition to a larger (smaller) offset whose two wall
\* readings enclose it.
CivilNaive == NaiveMinutes(civil.year, civil.month, civil.day, civil.hour, civil.minute)

SkippedHour(zone, naive) ==
    \E i \in 2 .. Len(ZoneTable(zone)) :
        /\ ZoneTable(zone)[i - 1].off < ZoneTable(zone)[i].off
        /\ ZoneTable(zone)[i].utc + ZoneTable(zone)[i - 1].off <= naive
        /\ naive < ZoneTable(zone)[i].utc + ZoneTable(zone)[i].off

RepeatedHour(zone, naive) ==
    \E i \in 2 .. Len(ZoneTable(zone)) :
        /\ ZoneTable(zone)[i].off < ZoneTable(zone)[i - 1].off
        /\ ZoneTable(zone)[i].utc + ZoneTable(zone)[i].off <= naive
        /\ naive < ZoneTable(zone)[i].utc + ZoneTable(zone)[i - 1].off

StandardOffsetOf(zone) == ZoneTable(zone)[1].off

DaylightOffsetOf(zone) == ZoneTable(zone)[2].off

\* The Julian Day (less 2400000 days, in minutes) of an instant counted in
\* minutes from 1970-01-01T00:00 UTC, which is JD 2440587.5.
JdOfInstant(t) == t + 58446000

NamedZone == timezone_at(request.loc) # NoZone

CivilValid ==
    DatetimeOk(civil.year, civil.month, civil.day, civil.hour, civil.minute)

\* C1: a request whose date or time string is malformed or out of range is
\* answered 400 and never with a chart, whether or not a zone is found.
C1_MalformedIs400 ==
    (pc = "done" /\ FieldsTaken
       /\ (~SpecDateOk(request.date) \/ ~SpecTimeOk(request.time)))
    => (response.status = 400 /\ response.chart = << >>)

\* C2: a civil moment in a skipped hour of the named zone converts without
\* an exception, to the moment one hour later read under the daylight offset.
C2_SkippedHourShifted ==
    (Converted /\ NamedZone /\ civil # NoCivil /\ CivilValid
       /\ SkippedHour(timezone_at(request.loc), CivilNaive))
    => /\ ~ConversionRaised
       /\ effective_tz_minutes = DaylightOffsetOf(timezone_at(request.loc))
       /\ jd_ut = JdOfInstant(CivilNaive + 60 - DaylightOffsetOf(timezone_at(request.loc)))

\* C3: a civil moment in a repeated hour of the named zone converts under
\* the standard offset: the offset returned and the instant of the Julian
\* Day are those of the standard-time reading.
C3_RepeatedHourStandard ==
    (Converted /\ NamedZone /\ civil # NoCivil /\ CivilValid
       /\ RepeatedHour(timezone_at(request.loc), CivilNaive))
    => /\ ~ConversionRaised
       /\ jd_computed = 1
       /\ tz_name = timezone_at(request.loc)
       /\ effective_tz_minutes = StandardOffsetOf(timezone_at(request.loc))
       /\ effective_tz_minutes # DaylightOffsetOf(timezone_at(request.loc))
       /\ jd_ut = JdOfInstant(CivilNaive - StandardOffsetOf(timezone_at(request.loc)))

C3_Witness ==
    /\ pc = "planets"
    /\ request.loc = "NewYork"
    /\ request.date = Str_2023_11_05
    /\ request.time = Str_01c30
    /\ effective_tz_minutes = -300
    /\ jd_ut = julday(2023, 11, 5, 6 * 60 + 30)

\* The request is well formed as the handler documents it: a date of three
\* integers in range and a time HH:MM in range.
WellFormedRequest ==
    /\ FieldsTaken
    /\ SpecDateOk(request.date)
    /\ SpecTimeOk(request.time)
    /\ Len(Split(request.time, ":")) = 2

ExpectedFallbackOffset ==
    IF request.tzoff.kind = "number" THEN request.tzoff.val ELSE 0

ChartComplete(c) ==
    /\ Len(c.planets) = Len(PLANETS)
    /\ \A i \in 1 .. Len(PLANETS) : c.planets[i].name = PLANETS[i] /\ c.planets[i].house \in 1 .. 12
    /\ Len(c.houses) = 12
    /\ c.ascendant.sign \in {SIGN_NAMES[i] : i \in 1 .. 12}

ColonAt(t) == {k \in 1 .. Len(t) : t[k] = ":"}

TwoColonInts(t) ==
    /\ Cardinality(ColonAt(t)) = 1
    /\ \E k \in ColonAt(t) :
          IntOk(SubSeq(t, 1, k - 1)) /\ IntOk(SubSeq(t, k + 1, Len(t)))

SignIdx(l) == l \div Deg(30)

\* C6: for an ascendant in [0,360) the house of a body is
\* ((bodySign - ascSign + 12) mod 12) + 1, a number in 1..12; a body in the
\* ascendant's sign is in house 1, and two bodies share a house exactly
\* when they share a sign (the 12 signs go one-to-one onto the 12 houses).
C6_WholeSignBijection ==
    (mp.stage = "housed" /\ mp.asc >= 0 /\ mp.asc < Deg(360))
    => /\ mp.houseA = ((SignIdx(mp.lonA) - SignIdx(mp.asc) + 12) % 12) + 1
       /\ mp.houseB = ((SignIdx(mp.lonB) - SignIdx(mp.asc) + 12) % 12) + 1
       /\ mp.houseA \in 1 .. 12 /\ mp.houseB \in 1 .. 12
       /\ (SignIdx(mp.lonA) = SignIdx(mp.asc)) => mp.houseA = 1
       /\ (SignIdx(mp.lonA) = SignIdx(mp.lonB)) <=> (mp.houseA = mp.houseB)

C6_Witness ==
    /\ mp.stage = "housed"
    /\ mp.rawA = Deg(-30) + 1
    /\ mp.asc = Deg(330)
    /\ mp.houseA = 1
    /\ mp.houseB = 2
    /\ mp.signB = "Aries"

\* C7: every raw longitude, negative ones and ones of 360 or more included,
\* is wrapped into [0,360) congruent to it modulo 360 (up to the rounding
\* of the float result), and the sign lookup stays inside the table.
C7_WrapInRange ==
    (mp.stage \in {"wrapped", "mapped", "IndexError", "housed"})
    => /\ mp.lonA >= 0 /\ mp.lonA < Deg(360)
       /\ mp.lonA = RoundF(mp.rawA % Deg(360))
       /\ mp.stage # "IndexError"

\* The zodiac in order, Aries first.
Zodiac ==
    << "Aries", "Taurus", "Gemini", "Cancer", "Leo", "Virgo",
       "Libra", "Scorpio", "Sagittarius", "Capricorn", "Aquarius", "Pisces" >>

Decomposed(l, sign, deg) ==
    /\ l >= 0 /\ l < Deg(360)
    /\ sign = Zodiac[SignIdx(l) + 1]
    /\ deg >= 0 /\ deg < Deg(30)
    /\ SignIdx(l) * Deg(30) + deg = l

\* C8: a longitude reported for a body or the ascendant lies in [0,360),
\* its sign is the entry floor(L/30) of the zodiac, its degreeInSign is in
\* [0,30), and signIndex * 30 + degreeInSign = L.
C8_SignAndDegree ==
    (mp.stage \in {"mapped", "housed"})
    => /\ Decomposed(mp.lonA, mp.signA, mp.degA)
       /\ Decomposed(mp.lonB, mp.signB, mp.degB)
       /\ Decomposed(mp.asc, mp.signAsc, mp.degAsc)

C8_Witness ==
    /\ mp.stage = "mapped"
    /\ mp.rawA = Deg(390) + Deg(1)
    /\ mp.lonA = Deg(31)
    /\ mp.signA = "Taurus"
    /\ mp.degA = Deg(1)
    /\ mp.signAsc = "Pisces"

\* C9: the Julian Day is that of the UT instant built from hour and minute
\* on both paths: the localized instant in UTC for a named zone, the full
\* civil time less the offset on the fallback path.
C9_JulianDayOfFullCivilTime ==
    (Converted /\ jd_computed = 1)
    => IF NamedZone
       THEN jd_ut = JdOfInstant(CivilNaive - effective_tz_minutes)
       ELSE jd_ut = julday(civil.year, civil.month, civil.day,
                           civil.hour * 60 + civil.minute - effective_tz_minutes)

\* C10: an answer with a chart comes after one computation of the Julian
\* Day, one calc_ut call for each tracked body in order and one houses
\* call, each given that Julian Day, and the chart is complete; a request
\* in which a stage raised is answered without any chart.
C10_OneInstantWholeChart ==
    /\ \A i \in 1 .. Len(calls) : calls[i].jd = jd_ut
    /\ (response.status = 200) =>
          /\ pc = "done" /\ exc = NoExc
          /\ jd_computed = 1
          /\ Len(calls) = Len(PLANETS) + 1
          /\ \A i \in 1 .. Len(PLANETS) :
                calls[i] = [fn |-> "calc_ut", body |-> PLANETS[i], jd |-> jd_ut]
          /\ calls[Len(PLANETS) + 1] = [fn |-> "houses", body |-> "", jd |-> jd_ut]
          /\ Len(response.chart) = 1
          /\ ChartComplete(response.chart[1])
    /\ (exc # NoExc) => (pc = "done" /\ response.status \in {400, 500}
                         /\ response.chart = << >>)
    /\ (response.chart # << >>) => response.status = 200

C10_Witness ==
    /\ pc = "done"
    /\ response.status = 200
    /\ request.loc = "London"
    /\ request.date = Str_2000_01_01
    /\ Len(calls) = 8
    /\ jd_ut = julday(2000, 1, 1, 12 * 60)

====
